---- MODULE Spec2Model ----
(***************************************************************************)
(* Model of the AsusRouter integration: the connection check, the config   *)
(* flow (ASUSRouterFlowHandler), the options flow (OptionsFlowHandler) and *)
(* the sensor discovery of the HTTP bridge.                                *)
(*                                                                         *)
(* Python dictionaries are functions whose domain is the set of keys.      *)
(* A user_input of None is the empty dictionary: the handlers only test    *)
(* `if user_input` / `if not user_input`, which treats both alike.         *)
(***************************************************************************)
EXTENDS Integers, Sequences, FiniteSets, TLC

\* ------------------------------------------------------------------ bounds

\* Number of config flow instances alive at the same time.
NumFlows == 2

Flows == 1..NumFlows

\* Number of options flows opened (an abandoned flow counts).
MaxOptionsFlows == 1

\* ------------------------------------------------------------ dictionaries

EmptyDict == [k \in {} |-> TRUE]

\* dict.update(e)
Update(d, e) ==
    [k \in (DOMAIN d) \cup (DOMAIN e) |-> IF k \in DOMAIN e THEN e[k] ELSE d[k]]

\* Nothing is popped.
PopAll_KeepAll(d, ks) == d

\* dict.pop(k) for every k of ks
PopAll(d, ks) == [k \in (DOMAIN d) \ ks |-> d[k]]

\* dict.get(k, default)
Get(d, k, default) == IF k \in DOMAIN d THEN d[k] ELSE default

\* --------------------------------------------------------------- constants
\* The names the two files import from homeassistant.const and from the
\* package's const module.  Only the names appear in the files modelled: the
\* result codes are taken to be distinct non-empty strings, and the
\* simplified-setup parameters to supply the port and the certificate check,
\* the two keys the bridge requires that the credentials form does not ask
\* for (without them no simplified check could build its bridge).

CONF_HOST == "host"
CONF_USERNAME == "username"
CONF_PASSWORD == "password"
CONF_PORT == "port"
CONF_SSL == "ssl"
CONF_VERIFY_SSL == "verify_ssl"
CONF_CERT_PATH == "cert_path"
CONF_ENABLE_MONITOR == "enable_monitor"
CONF_ENABLE_CONTROL == "enable_control"
CONF_INTERFACES == "interfaces"
CONF_NAME == "name"
CONF_CONFIRM == "confirm"

RESULT_CONNECTION_REFUSED == "connection_refused"
RESULT_ERROR == "error"
RESULT_LOGIN_BLOCKED == "login_blocked"
RESULT_SUCCESS == "success"
RESULT_UNKNOWN == "unknown"
RESULT_WRONG_CREDENTIALS == "wrong_credentials"

DEFAULT_ENABLE_MONITOR == TRUE

DELAULT_INTERFACES == <<"WAN">>

SENSORS_NETWORK_STAT == <<"rx", "tx">>

SENSORS_PORTS == <<"WAN", "LAN">>

\* Parameters the simplified setup adds for the chosen SSL flag.
SIMPLE_SETUP_PARAMETERS ==
    [ssl    |-> [port |-> 8443, verify_ssl |-> FALSE],
     no_ssl |-> [port |-> 80, verify_ssl |-> FALSE]]

\* ------------------------------------------------------------- environment

\* Exceptions the SDK's connect (or the identity request that follows it)
\* can raise; "Exception" stands for any exception outside the SDK's own
\* hierarchy.
AsusRouterErrors ==
    {"AsusRouterLoginError", "AsusRouterLoginBlockError",
     "AsusRouterConnectionError", "AsusRouterError"}

SdkExceptions == AsusRouterErrors \cup {"Exception"}

Serials == {"SN1", "SN2"}

\* What the device answers to one connect: success with a serial number, or
\* an exception.
ConnectAnswers ==
    {[connect |-> "ok", serial |-> s] : s \in Serials}
    \cup {[connect |-> e, serial |-> ""] : e \in SdkExceptions}

\* What the device answers to a request for its network labels.
LabelAnswers ==
    {[raises |-> TRUE, labels |-> <<>>],
     [raises |-> FALSE, labels |-> <<"WAN">>],
     [raises |-> FALSE, labels |-> <<"WAN", "WIRED">>]}

\* The label answers a handler call can consume: none when the call cannot
\* reach the interfaces query.
LabelAnswersIf(queried) ==
    IF queried THEN LabelAnswers ELSE {[raises |-> TRUE, labels |-> <<>>]}


Hosts == {"router", "nohost", "a..b"}

\* The names DNS resolves.
Resolvable == {"router"}

\* The names socket.gethostbyname cannot encode (an empty or over-long
\* label): it raises UnicodeError, a ValueError, before any lookup.
Malformed == {"a..b"}

\* ------------------------------------------------------------------ bridge

\* The keys AsusRouterBridgeHTTP._get_api reads with configs[...].
BridgeRequiredKeys ==
    {CONF_HOST, CONF_USERNAME, CONF_PASSWORD, CONF_PORT, CONF_SSL, CONF_VERIFY_SSL}

\* AsusRouterBridgeHTTP.async_connect: the exception it raises, "" for none.
\* An AsusRouterError is raised again, everything else becomes
\* ConfigEntryNotReady.
Bridge_async_connect(answer) ==
    IF answer.connect = "ok" THEN ""
    ELSE IF answer.connect \in AsusRouterErrors THEN answer.connect
    ELSE "ConfigEntryNotReady"

\* What the SDK answers to the requests of the sensor discovery.
CpuAnswers ==
    {[raises |-> TRUE, labels |-> <<>>],
     [raises |-> FALSE, labels |-> <<"total">>],
     [raises |-> FALSE, labels |-> <<"total", "core_1">>],
     [raises |-> FALSE, labels |-> <<"total", "core_1", "core_2">>]}

NetworkAnswers ==
    LabelAnswers \cup {[raises |-> FALSE, labels |-> <<>>]}

\* The ports of each type, in the order of the dictionary's keys.
PortsAnswers ==
    {[raises |-> TRUE, data |-> EmptyDict],
     [raises |-> FALSE, data |-> EmptyDict],
     [raises |-> FALSE, data |-> [LAN |-> <<"1", "2">>]],
     [raises |-> FALSE, data |-> [WAN |-> <<"0">>, LAN |-> <<"1">>]]}

\* AsusRouterBridgeHTTP._get_cpu_sensors
_get_cpu_sensors(answer) ==
    IF answer.raises
    THEN [sensors |-> <<"total">>, raised |-> ""]
    ELSE [sensors |-> answer.labels, raised |-> ""]

\* The nested loops of _get_network_stat_sensors: label_el for every label
\* and every el of SENSORS_NETWORK_STAT.
RECURSIVE NetworkStatNames(_)
NetworkStatNames(labels) ==
    IF labels = <<>> THEN <<>>
    ELSE [i \in 1..Len(SENSORS_NETWORK_STAT) |->
              Head(labels) \o "_" \o SENSORS_NETWORK_STAT[i]]
         \o NetworkStatNames(Tail(labels))

\* sensors bound after the request: the except clause leaves it unbound and
\* the return raises.
_get_network_stat_sensors_Unbound(answer) ==
    IF answer.raises
    THEN [sensors |-> <<>>, raised |-> "UnboundLocalError"]
    ELSE [sensors |-> NetworkStatNames(answer.labels), raised |-> ""]

\* AsusRouterBridgeHTTP._get_network_stat_sensors: sensors is bound to the
\* empty list before the request is made.
_get_network_stat_sensors(answer) ==
    IF answer.raises
    THEN [sensors |-> <<>>, raised |-> ""]
    ELSE [sensors |-> NetworkStatNames(answer.labels), raised |-> ""]

\* The loop of _get_ports_sensors over SENSORS_PORTS from index i on.
RECURSIVE PortsNames(_, _)
PortsNames(data, i) ==
    IF i > Len(SENSORS_PORTS) THEN <<>>
    ELSE LET type == SENSORS_PORTS[i]
         IN  (IF type \in DOMAIN data
              THEN <<type, type \o "_total">>
                   \o [p \in 1..Len(data[type]) |-> type \o "_" \o data[type][p]]
              ELSE <<>>)
             \o PortsNames(data, i + 1)

\* AsusRouterBridgeHTTP._get_ports_sensors
_get_ports_sensors(answer) ==
    IF answer.raises
    THEN [sensors |-> <<>>, raised |-> ""]
    ELSE [sensors |-> PortsNames(answer.data, 1), raised |-> ""]

\* AsusRouterBridgeHTTP.async_get_available_sensors: the discovered sensor
\* lists, and the first exception that escapes one of the three calls.
async_get_available_sensors(cpu, net, ports) ==
    LET c == _get_cpu_sensors(cpu)
        n == _get_network_stat_sensors(net)
        p == _get_ports_sensors(ports)
    IN  [cpu |-> c.sensors, network_stat |-> n.sensors, ports |-> p.sensors,
         raised |-> IF c.raised # "" THEN c.raised
                    ELSE IF n.raised # "" THEN n.raised ELSE p.raised]

\* -------------------------------------------------------- connection check

\* _check_host(host): the address, "" for None when the lookup raises
\* socket.gaierror; any other exception of gethostbyname is not caught.
_check_host(host) ==
    IF host \in Malformed THEN [ip |-> "", raised |-> "UnicodeError"]
    ELSE IF host \in Resolvable THEN [ip |-> "192.168.1.1", raised |-> ""]
    ELSE [ip |-> "", raised |-> ""]

_check_errors(errors) ==
    /\ "base" \in DOMAIN errors
    /\ errors["base"] # RESULT_SUCCESS
    /\ errors["base"] # ""

\* The except clauses with the login-block clause after the generic one,
\* where it is never reached.
ConnectErrorCode_BlockUnreached(exc) ==
    IF exc = "AsusRouterLoginError" THEN RESULT_WRONG_CREDENTIALS
    ELSE IF exc = "AsusRouterConnectionError" THEN RESULT_CONNECTION_REFUSED
    ELSE RESULT_UNKNOWN

\* The except clauses of _async_check_connection, in their order.
ConnectErrorCode(exc) ==
    IF exc = "AsusRouterLoginError" THEN RESULT_WRONG_CREDENTIALS
    ELSE IF exc = "AsusRouterLoginBlockError" THEN RESULT_LOGIN_BLOCKED
    ELSE IF exc = "AsusRouterConnectionError" THEN RESULT_CONNECTION_REFUSED
    ELSE RESULT_UNKNOWN

\* The cleanup after the try statement instead of in a finally clause: the
\* except clauses return before it.
CheckCalls_NoFinally(exc) ==
    <<"async_connect">>
    \o (IF exc = "" THEN <<"async_clean", "get_serial", "async_disconnect">>
        ELSE <<>>)

\* The bridge calls a check makes after the bridge is built: connect, then
\* the finally clause, then (no exception) get_serial and disconnect.
CheckCalls(exc) ==
    <<"async_connect", "async_clean">>
    \o (IF exc = "" THEN <<"get_serial", "async_disconnect">> ELSE <<>>)

\* _async_check_connection(hass, configs, options, simple).  The SDK's
\* cleanup, serial and disconnect calls are taken to return normally; connect
\* is the call whose failures the function handles.
\*   result : the dictionary returned (EmptyDict when an exception escapes)
\*   raised : the exception that escapes, "" for none
\*   calls  : the bridge calls made, in order
\*   exc    : the exception async_connect raised, "" for none or no connect
\*   args   : the configs and options arguments as the call leaves them (the
\*            function works on configs.copy() and never writes to options)
_async_check_connection(configs, options, simple, answer) ==
    LET merged == Update(configs, options)
        args == [configs |-> configs, options |-> options]
    IN  IF CONF_HOST \notin DOMAIN merged
        THEN [result |-> [errors |-> RESULT_ERROR], raised |-> "",
              calls |-> <<>>, exc |-> "", simple |-> simple,
              args |-> args]
        ELSE IF simple /\ CONF_SSL \notin DOMAIN merged
        THEN [result |-> EmptyDict, raised |-> "KeyError",
              calls |-> <<>>, exc |-> "", simple |-> simple,
              args |-> args]
        ELSE
        LET configs_to_use ==
                IF simple
                THEN Update(merged, IF merged[CONF_SSL] = TRUE
                                    THEN SIMPLE_SETUP_PARAMETERS["ssl"]
                                    ELSE SIMPLE_SETUP_PARAMETERS["no_ssl"])
                ELSE merged
        IN  IF ~(BridgeRequiredKeys \subseteq DOMAIN configs_to_use)
            THEN [result |-> EmptyDict, raised |-> "KeyError",
                  calls |-> <<>>, exc |-> "", simple |-> simple,
                  args |-> args]
            ELSE
            LET exc == Bridge_async_connect(answer)
            IN  IF exc # ""
                THEN [result |-> [errors |-> ConnectErrorCode(exc)],
                      raised |-> "", calls |-> CheckCalls(exc), exc |-> exc,
                      simple |-> simple, args |-> args]
                ELSE [result |-> [unique_id |-> answer.serial,
                                  configs |-> PopAll(configs_to_use, DOMAIN configs)],
                      raised |-> "", calls |-> CheckCalls(exc), exc |-> exc,
                      simple |-> simple, args |-> args]

\* _async_get_network_interfaces(hass, configs, options): the labels, or the
\* default list when a call inside the try raises.  The bridge is built
\* before the try, so a missing key escapes.
_async_get_network_interfaces(configs, options, answer) ==
    IF ~(BridgeRequiredKeys \subseteq DOMAIN Update(configs, options))
    THEN [labels |-> <<>>, raised |-> "KeyError"]
    ELSE IF answer.raises
    THEN [labels |-> DELAULT_INTERFACES, raised |-> ""]
    ELSE [labels |-> answer.labels, raised |-> ""]

\* ------------------------------------------------------------ flow results

\* async_show_form(step_id, data_schema built from data, errors)
Form(step, errors, data) ==
    [type |-> "form", step_id |-> step, errors |-> errors, data |-> data]

\* async_create_entry
CreateEntry ==
    [type |-> "create_entry", step_id |-> "", errors |-> EmptyDict,
     data |-> EmptyDict]

\* An exception that leaves the handler.
Raised(exc) ==
    [type |-> "raise", step_id |-> exc, errors |-> EmptyDict, data |-> EmptyDict]

\* What one handler call yields: the handler's fields afterwards, the flow
\* result, the connection checks made and the number of interface queries.
Out(st, result, checks, queries) ==
    [st |-> st, result |-> result, checks |-> checks, queries |-> queries]

WithCheck(out, chk) == [out EXCEPT !.checks = <<chk>> \o @]

\* ------------------------------------------------------------- config flow
\* st = [configs, options, unique_id, dflt]: the fields of one
\* ASUSRouterFlowHandler, and dflt, the dictionary that is the default value
\* of async_step_device's errors parameter (one object, made when the
\* function is defined).

\* ASUSRouterFlowHandler.__init__
NewFlowState(dflt) ==
    [configs |-> EmptyDict, options |-> EmptyDict, unique_id |-> "", dflt |-> dflt]

\* The table with the step after interfaces pointing back to times.
_steps_Backwards ==
    [discovery         |-> "credentials",
     credentials       |-> "operation_mode",
     credentials_error |-> "device",
     device            |-> "operation_mode",
     operation_mode    |-> "times",
     times             |-> "interfaces",
     interfaces        |-> "times",
     name              |-> "finish"]

\* The table with the error exit of credentials pointing at credentials.
_steps_NoComplete ==
    [discovery         |-> "credentials",
     credentials       |-> "operation_mode",
     credentials_error |-> "credentials",
     device            |-> "operation_mode",
     operation_mode    |-> "times",
     times             |-> "interfaces",
     interfaces        |-> "name",
     name              |-> "finish"]

\* self._steps: last_step -> the step called next
_steps ==
    [discovery         |-> "credentials",
     credentials       |-> "operation_mode",
     credentials_error |-> "device",
     device            |-> "operation_mode",
     operation_mode    |-> "times",
     times             |-> "interfaces",
     interfaces        |-> "name",
     name              |-> "finish"]

RECURSIVE async_select_step(_, _, _, _)
RECURSIVE CallStep(_, _, _, _, _)
RECURSIVE async_step_credentials(_, _, _)
RECURSIVE async_step_device(_, _, _, _, _)
RECURSIVE async_step_operation_mode(_, _, _)
RECURSIVE async_step_times(_, _, _)
RECURSIVE async_step_interfaces(_, _, _)
RECURSIVE async_step_name(_, _, _)

\* ASUSRouterFlowHandler.async_step_finish
async_step_finish(st) == Out(st, CreateEntry, <<>>, 0)

\* ASUSRouterFlowHandler.async_select_step(last_step, errors)
async_select_step(st, last_step, errors, answers) ==
    IF last_step = ""
    THEN Out(st, Raised("ValueError"), <<>>, 0)
    ELSE IF last_step \notin DOMAIN _steps
    THEN Out(st, Raised("ValueError"), <<>>, 0)
    ELSE IF _check_errors(errors)
    THEN IF (last_step \o "_error") \in DOMAIN _steps
         THEN CallStep(_steps[last_step \o "_error"], st, TRUE, errors, answers)
         ELSE Out(st, Raised("KeyError"), <<>>, 0)
    ELSE CallStep(_steps[last_step], st, FALSE, EmptyDict, answers)

\* The call self._steps[...]() or self._steps[...](errors = errors): the
\* step is called without user_input; only async_step_device takes errors.
CallStep(step, st, with_errors, errors, answers) ==
    IF step = "device"
    THEN async_step_device(st, EmptyDict, with_errors, errors, answers)
    ELSE IF with_errors
    THEN Out(st, Raised("TypeError"), <<>>, 0)
    ELSE IF step = "credentials" THEN async_step_credentials(st, EmptyDict, answers)
    ELSE IF step = "operation_mode" THEN async_step_operation_mode(st, EmptyDict, answers)
    ELSE IF step = "times" THEN async_step_times(st, EmptyDict, answers)
    ELSE IF step = "interfaces" THEN async_step_interfaces(st, EmptyDict, answers)
    ELSE IF step = "name" THEN async_step_name(st, EmptyDict, answers)
    ELSE async_step_finish(st)

\* ASUSRouterFlowHandler.async_step_discovery(user_input)
async_step_discovery(st, user_input, answers) ==
    IF user_input # EmptyDict
    THEN LET ip == _check_host(user_input[CONF_HOST])
             errors == IF ip.ip = "" THEN [base |-> "cannot_resolve_host"]
                       ELSE EmptyDict
         IN  IF ip.raised # ""
             THEN Out(st, Raised(ip.raised), <<>>, 0)
             ELSE IF errors = EmptyDict
             THEN async_select_step(
                      [st EXCEPT !.configs = Update(@, user_input)],
                      "discovery", errors, answers)
             ELSE Out(st, Form("discovery", errors, user_input), <<>>, 0)
    ELSE Out(st, Form("discovery", EmptyDict, EmptyDict), <<>>, 0)

\* ASUSRouterFlowHandler.async_step_user(user_input)
async_step_user(st, user_input, answers) ==
    async_step_discovery(st, user_input, answers)

\* The test with the login-blocked comparison left out.
SwitchesToComplete_BlockedToo(code) == code # RESULT_WRONG_CREDENTIALS

\* The test of async_step_credentials on the error code of the simplified
\* check: every code but wrong credentials and login blocked switches the
\* flow to the complete setup.
SwitchesToComplete(code) ==
    /\ code # RESULT_WRONG_CREDENTIALS
    /\ code # RESULT_LOGIN_BLOCKED

\* The credentials step writing the simplified-setup parameters to the
\* options before the check, whatever the check returns.
async_step_credentials_ParamsFirst(st, user_input, answers) ==
    IF user_input # EmptyDict
    THEN LET st0 == [st EXCEPT !.options = Update(@, user_input)]
             st1 == [st0 EXCEPT !.options =
                         Update(@, IF st0.options[CONF_SSL] = TRUE
                                   THEN SIMPLE_SETUP_PARAMETERS["ssl"]
                                   ELSE SIMPLE_SETUP_PARAMETERS["no_ssl"])]
             chk == _async_check_connection(st1.configs, st1.options, TRUE,
                                            answers.conn)
         IN  IF chk.raised # ""
             THEN Out(st1, Raised(chk.raised), <<chk>>, 0)
             ELSE IF "errors" \in DOMAIN chk.result
             THEN LET errors == [base |-> chk.result["errors"]]
                  IN  IF SwitchesToComplete(errors["base"])
                      THEN WithCheck(
                               async_select_step(st1, "credentials", errors, answers),
                               chk)
                      ELSE Out(st1, Form("credentials", errors, user_input),
                               <<chk>>, 0)
             ELSE WithCheck(
                      async_select_step(
                          [st1 EXCEPT !.options = Update(@, chk.result["configs"]),
                                      !.unique_id = chk.result["unique_id"]],
                          "credentials", EmptyDict, answers),
                      chk)
    ELSE Out(st, Form("credentials", EmptyDict, st.options), <<>>, 0)

\* ASUSRouterFlowHandler.async_step_credentials(user_input)
async_step_credentials(st, user_input, answers) ==
    IF user_input # EmptyDict
    THEN LET st1 == [st EXCEPT !.options = Update(@, user_input)]
             chk == _async_check_connection(st1.configs, st1.options, TRUE,
                                            answers.conn)
         IN  IF chk.raised # ""
             THEN Out(st1, Raised(chk.raised), <<chk>>, 0)
             ELSE IF "errors" \in DOMAIN chk.result
             THEN LET errors == [base |-> chk.result["errors"]]
                  IN  IF SwitchesToComplete(errors["base"])
                      THEN WithCheck(
                               async_select_step(st1, "credentials", errors, answers),
                               chk)
                      ELSE Out(st1, Form("credentials", errors, user_input),
                               <<chk>>, 0)
             ELSE WithCheck(
                      async_select_step(
                          [st1 EXCEPT !.options = Update(@, chk.result["configs"]),
                                      !.unique_id = chk.result["unique_id"]],
                          "credentials", EmptyDict, answers),
                      chk)
    ELSE Out(st, Form("credentials", EmptyDict, st.options), <<>>, 0)

\* The device step without the call of async_set_unique_id.
async_step_device_NoUniqueId(st, user_input, with_errors, errors_arg, answers) ==
    LET errors == IF with_errors THEN errors_arg ELSE st.dflt
    IN  IF user_input # EmptyDict
        THEN LET st1 == [st EXCEPT !.options = Update(@, user_input)]
                 chk == _async_check_connection(st1.configs, st1.options, FALSE,
                                                answers.conn)
             IN  IF chk.raised # ""
                 THEN Out(st1, Raised(chk.raised), <<chk>>, 0)
                 ELSE IF "errors" \in DOMAIN chk.result
                 THEN LET errors1 == Update(errors, [base |-> chk.result["errors"]])
                          st2 == IF with_errors THEN st1
                                 ELSE [st1 EXCEPT !.dflt = errors1]
                      IN  Out(st2, Form("device", errors1, user_input), <<chk>>, 0)
                 ELSE WithCheck(
                          async_select_step(
                              [st1 EXCEPT !.options = Update(@, chk.result["configs"])],
                              "device", errors, answers),
                          chk)
        ELSE Out(st, Form("device", errors, st.options), <<>>, 0)

\* ASUSRouterFlowHandler.async_step_device(user_input, errors = dict()).
\* Without an errors argument the parameter is bound to the default
\* dictionary st.dflt, and errors["base"] = ... writes into that object.
async_step_device(st, user_input, with_errors, errors_arg, answers) ==
    LET errors == IF with_errors THEN errors_arg ELSE st.dflt
    IN  IF user_input # EmptyDict
        THEN LET st1 == [st EXCEPT !.options = Update(@, user_input)]
                 chk == _async_check_connection(st1.configs, st1.options, FALSE,
                                                answers.conn)
             IN  IF chk.raised # ""
                 THEN Out(st1, Raised(chk.raised), <<chk>>, 0)
                 ELSE IF "errors" \in DOMAIN chk.result
                 THEN LET errors1 == Update(errors, [base |-> chk.result["errors"]])
                          st2 == IF with_errors THEN st1
                                 ELSE [st1 EXCEPT !.dflt = errors1]
                      IN  Out(st2, Form("device", errors1, user_input), <<chk>>, 0)
                 ELSE WithCheck(
                          async_select_step(
                              [st1 EXCEPT !.options = Update(@, chk.result["configs"]),
                                          !.unique_id = chk.result["unique_id"]],
                              "device", errors, answers),
                          chk)
        ELSE Out(st, Form("device", errors, st.options), <<>>, 0)

\* ASUSRouterFlowHandler.async_step_operation_mode(user_input)
async_step_operation_mode(st, user_input, answers) ==
    IF user_input = EmptyDict
    THEN Out(st, Form("operation_mode", EmptyDict, st.options), <<>>, 0)
    ELSE async_select_step([st EXCEPT !.options = Update(@, user_input)],
                           "operation_mode", EmptyDict, answers)

\* ASUSRouterFlowHandler.async_step_times(user_input)
async_step_times(st, user_input, answers) ==
    IF user_input = EmptyDict
    THEN Out(st, Form("times", EmptyDict, st.options), <<>>, 0)
    ELSE async_select_step([st EXCEPT !.options = Update(@, user_input)],
                           "times", EmptyDict, answers)

\* The interfaces step without the test of the monitoring option.
async_step_interfaces_NoTest(st, user_input, answers) ==
    IF user_input = EmptyDict
    THEN LET q == _async_get_network_interfaces(st.configs, st.options,
                                                answers.net)
         IN  IF q.raised # ""
             THEN Out(st, Raised(q.raised), <<>>, 1)
             ELSE Out(st,
                      Form("interfaces", EmptyDict,
                           Update(st.options, [interfaces |-> q.labels])),
                      <<>>, 1)
    ELSE async_select_step([st EXCEPT !.options = Update(@, user_input)],
                           "interfaces", EmptyDict, answers)

\* ASUSRouterFlowHandler.async_step_interfaces(user_input)
async_step_interfaces(st, user_input, answers) ==
    IF Get(st.options, CONF_ENABLE_MONITOR, DEFAULT_ENABLE_MONITOR) = TRUE
    THEN IF user_input = EmptyDict
         THEN LET q == _async_get_network_interfaces(st.configs, st.options,
                                                     answers.net)
              IN  IF q.raised # ""
                  THEN Out(st, Raised(q.raised), <<>>, 1)
                  ELSE Out(st,
                           Form("interfaces", EmptyDict,
                                Update(st.options, [interfaces |-> q.labels])),
                           <<>>, 1)
         ELSE async_select_step([st EXCEPT !.options = Update(@, user_input)],
                                "interfaces", EmptyDict, answers)
    ELSE async_select_step(st, "interfaces", EmptyDict, answers)

\* ASUSRouterFlowHandler.async_step_name(user_input)
async_step_name(st, user_input, answers) ==
    IF user_input = EmptyDict
    THEN Out(st, Form("name", EmptyDict, EmptyDict), <<>>, 0)
    ELSE async_select_step([st EXCEPT !.options = Update(@, user_input)],
                           "name", EmptyDict, answers)

\* ------------------------------------------------------------ options flow
\* st = [selection, configs, options, stored, shared]: the fields of one
\* OptionsFlowHandler; stored is the options dictionary of the config entry
\* the flow was opened on and shared tells whether options["interfaces"] is
\* still the list object of stored["interfaces"] (dict.copy() is shallow).

\* OptionsFlowHandler.__init__(config_entry)
Options_init(config_entry) ==
    [selection |-> EmptyDict,
     configs   |-> config_entry.data,
     options   |-> config_entry.options,
     stored    |-> config_entry.options,
     shared    |-> TRUE]

\* The table with the interfaces step followed by finish.
Options_steps_NoConfirmation ==
    [options        |-> "device",
     device         |-> "operation_mode",
     operation_mode |-> "times",
     times          |-> "interfaces",
     interfaces     |-> "finish",
     confirmation   |-> "finish"]

\* self._steps of the options flow
Options_steps ==
    [options        |-> "device",
     device         |-> "operation_mode",
     operation_mode |-> "times",
     times          |-> "interfaces",
     interfaces     |-> "confirmation",
     confirmation   |-> "finish"]

\* The test without its second half: a step selected as false counts as
\* selected.
NotSelected_MissingOnly(st, step_id) == step_id \notin DOMAIN st.selection

\* `not step_id in self._selection or self._selection[step_id] == False`
NotSelected(st, step_id) ==
    \/ step_id \notin DOMAIN st.selection
    \/ st.selection[step_id] = FALSE

\* self._options.update(user_input): a submitted interfaces list replaces
\* the list object taken from the config entry.
Options_update(st, user_input) ==
    [st EXCEPT !.options = Update(@, user_input),
               !.shared = @ /\ CONF_INTERFACES \notin DOMAIN user_input]

\* The loop of OptionsFlowHandler.async_step_interfaces: every label that is
\* not in the list yet is appended to it.
RECURSIVE AppendMissing(_, _)
AppendMissing(list, labels) ==
    IF labels = <<>> THEN list
    ELSE AppendMissing(
             IF \E i \in 1..Len(list) : list[i] = Head(labels)
             THEN list ELSE Append(list, Head(labels)),
             Tail(labels))

RECURSIVE Options_async_select_step(_, _, _, _)
RECURSIVE Options_CallStep(_, _, _, _, _)
RECURSIVE Options_async_step_device(_, _, _)
RECURSIVE Options_async_step_operation_mode(_, _, _)
RECURSIVE Options_async_step_times(_, _, _)
RECURSIVE Options_async_step_interfaces(_, _, _)
RECURSIVE Options_async_step_confirmation(_, _, _)

\* OptionsFlowHandler.async_step_finish
Options_async_step_finish(st) == Out(st, CreateEntry, <<>>, 0)

\* OptionsFlowHandler.async_select_step(last_step, errors)
Options_async_select_step(st, last_step, errors, answers) ==
    IF last_step = ""
    THEN Out(st, Raised("ValueError"), <<>>, 0)
    ELSE IF last_step \notin DOMAIN Options_steps
    THEN Out(st, Raised("ValueError"), <<>>, 0)
    ELSE IF _check_errors(errors)
    THEN IF (last_step \o "_error") \in DOMAIN Options_steps
         THEN Options_CallStep(Options_steps[last_step \o "_error"], st, TRUE,
                               errors, answers)
         ELSE Out(st, Raised("KeyError"), <<>>, 0)
    ELSE Options_CallStep(Options_steps[last_step], st, FALSE, EmptyDict, answers)

\* The call self._steps[...]() of the options flow; no step of the options
\* flow takes errors.
Options_CallStep(step, st, with_errors, errors, answers) ==
    IF with_errors
    THEN Out(st, Raised("TypeError"), <<>>, 0)
    ELSE IF step = "device" THEN Options_async_step_device(st, EmptyDict, answers)
    ELSE IF step = "operation_mode"
    THEN Options_async_step_operation_mode(st, EmptyDict, answers)
    ELSE IF step = "times" THEN Options_async_step_times(st, EmptyDict, answers)
    ELSE IF step = "interfaces"
    THEN Options_async_step_interfaces(st, EmptyDict, answers)
    ELSE IF step = "confirmation"
    THEN Options_async_step_confirmation(st, EmptyDict, answers)
    ELSE Options_async_step_finish(st)

\* OptionsFlowHandler.async_step_options(user_input)
Options_async_step_options(st, user_input, answers) ==
    IF user_input # EmptyDict
    THEN Options_async_select_step(
             [st EXCEPT !.selection = Update(@, user_input)],
             "options", EmptyDict, answers)
    ELSE Out(st, Form("options", EmptyDict, st.selection), <<>>, 0)

\* OptionsFlowHandler.async_step_init(user_input)
Options_async_step_init(st, user_input, answers) ==
    Options_async_step_options(st, user_input, answers)

\* The device step showing the form again without the error of the check.
Options_async_step_device_NoError(st, user_input, answers) ==
    IF NotSelected(st, "device")
    THEN Options_async_select_step(st, "device", EmptyDict, answers)
    ELSE IF user_input # EmptyDict
    THEN LET st1 == Options_update(st, user_input)
             chk == _async_check_connection(st1.configs, st1.options, FALSE,
                                            answers.conn)
         IN  IF chk.raised # ""
             THEN Out(st1, Raised(chk.raised), <<chk>>, 0)
             ELSE IF "errors" \in DOMAIN chk.result
             THEN Out(st1, Form("device", EmptyDict, user_input), <<chk>>, 0)
             ELSE WithCheck(
                      Options_async_select_step(
                          Options_update(st1, chk.result["configs"]),
                          "device", EmptyDict, answers),
                      chk)
    ELSE Out(st, Form("device", EmptyDict, st.options), <<>>, 0)

\* The device step going on to the next step whatever the check returned.
Options_async_step_device_AnyResult(st, user_input, answers) ==
    IF NotSelected(st, "device")
    THEN Options_async_select_step(st, "device", EmptyDict, answers)
    ELSE IF user_input # EmptyDict
    THEN LET st1 == Options_update(st, user_input)
             chk == _async_check_connection(st1.configs, st1.options, FALSE,
                                            answers.conn)
         IN  IF chk.raised # ""
             THEN Out(st1, Raised(chk.raised), <<chk>>, 0)
             ELSE WithCheck(
                      Options_async_select_step(st1, "device", EmptyDict, answers),
                      chk)
    ELSE Out(st, Form("device", EmptyDict, st.options), <<>>, 0)

\* OptionsFlowHandler.async_step_device(user_input)
Options_async_step_device(st, user_input, answers) ==
    IF NotSelected(st, "device")
    THEN Options_async_select_step(st, "device", EmptyDict, answers)
    ELSE IF user_input # EmptyDict
    THEN LET st1 == Options_update(st, user_input)
             chk == _async_check_connection(st1.configs, st1.options, FALSE,
                                            answers.conn)
         IN  IF chk.raised # ""
             THEN Out(st1, Raised(chk.raised), <<chk>>, 0)
             ELSE IF "errors" \in DOMAIN chk.result
             THEN Out(st1,
                      Form("device", [base |-> chk.result["errors"]], user_input),
                      <<chk>>, 0)
             ELSE WithCheck(
                      Options_async_select_step(
                          Options_update(st1, chk.result["configs"]),
                          "device", EmptyDict, answers),
                      chk)
    ELSE Out(st, Form("device", EmptyDict, st.options), <<>>, 0)

\* OptionsFlowHandler.async_step_operation_mode(user_input)
Options_async_step_operation_mode(st, user_input, answers) ==
    IF NotSelected(st, "operation_mode")
    THEN Options_async_select_step(st, "operation_mode", EmptyDict, answers)
    ELSE IF user_input = EmptyDict
    THEN Out(st, Form("operation_mode", EmptyDict, st.options), <<>>, 0)
    ELSE Options_async_select_step(Options_update(st, user_input),
                                   "operation_mode", EmptyDict, answers)

\* OptionsFlowHandler.async_step_times(user_input)
Options_async_step_times(st, user_input, answers) ==
    IF NotSelected(st, "times")
    THEN Options_async_select_step(st, "times", EmptyDict, answers)
    ELSE IF user_input = EmptyDict
    THEN Out(st, Form("times", EmptyDict, st.options), <<>>, 0)
    ELSE Options_async_select_step(Options_update(st, user_input),
                                   "times", EmptyDict, answers)

\* OptionsFlowHandler.async_step_interfaces(user_input)
Options_async_step_interfaces(st, user_input, answers) ==
    IF NotSelected(st, "interfaces")
    THEN Options_async_select_step(st, "interfaces", EmptyDict, answers)
    ELSE IF Get(st.options, CONF_ENABLE_MONITOR, DEFAULT_ENABLE_MONITOR) = TRUE
    THEN IF user_input = EmptyDict
         THEN IF CONF_INTERFACES \notin DOMAIN st.options
              THEN Out(st, Raised("KeyError"), <<>>, 0)
              ELSE
              LET q == _async_get_network_interfaces(st.configs, st.options,
                                                     answers.net)
                  list == AppendMissing(st.options[CONF_INTERFACES], q.labels)
                  st1 == [st EXCEPT
                              !.options = Update(@, [interfaces |-> list]),
                              !.stored = IF st.shared
                                         THEN Update(@, [interfaces |-> list])
                                         ELSE @]
              IN  IF q.raised # ""
                  THEN Out(st, Raised(q.raised), <<>>, 1)
                  ELSE Out(st1, Form("interfaces", EmptyDict, st1.options),
                           <<>>, 1)
         ELSE Options_async_select_step(Options_update(st, user_input),
                                        "interfaces", EmptyDict, answers)
    ELSE Options_async_select_step(st, "interfaces", EmptyDict, answers)

\* OptionsFlowHandler.async_step_confirmation(user_input)
Options_async_step_confirmation(st, user_input, answers) ==
    IF user_input # EmptyDict
    THEN IF CONF_CONFIRM \in DOMAIN user_input /\ user_input[CONF_CONFIRM] = TRUE
         THEN Options_async_select_step(st, "confirmation", EmptyDict, answers)
         ELSE Out(st, Form("confirmation", [base |-> "not_confirmed"], user_input),
                  <<>>, 0)
    ELSE Out(st, Form("confirmation", EmptyDict, st.options), <<>>, 0)

\* ------------------------------------------------------------------- state

VARIABLES
    configs,        \* configs[f]: self._configs of config flow f
    options,        \* options[f]: self._options of config flow f
    unique_id,      \* unique_id[f]: the unique id set on flow f ("" for none)
    cur_step,       \* cur_step[f]: the step whose form flow f showed last;
                    \* "" before the flow starts, "done" once the entry exists
    device_errors,  \* the default dictionary of async_step_device's errors
    entry,          \* entry[f]: the config entry flow f created
    checked,        \* checked[f]: serial of the last successful check of f
    of_opened,      \* the number of options flows opened so far
    of_on,          \* the flow whose entry the options flow is opened on, 0 for none
    of_selection,   \* self._selection of the options flow
    of_configs,     \* self._configs of the options flow
    of_options,     \* self._options of the options flow
    of_shared,      \* of_options["interfaces"] is the entry's own list object
    of_step,        \* the step whose form the options flow showed last
    last,           \* the last operation and what it returned
    discovered      \* the last sensor or interface discovery and the SDK's answers

cf_vars == <<configs, options, unique_id, cur_step, device_errors, checked>>

of_vars == <<of_opened, of_on, of_selection, of_configs, of_options, of_shared, of_step>>

vars == <<cf_vars, entry, of_vars, last, discovered>>

NoEntry == [created |-> FALSE, title |-> "", data |-> EmptyDict,
            options |-> EmptyDict, unique_id |-> ""]

NoAnswer == [raises |-> TRUE, labels |-> <<>>]

NoDiscovery ==
    [op |-> "", cpu |-> NoAnswer, net |-> NoAnswer,
     ports |-> [raises |-> TRUE, data |-> EmptyDict], configs |-> EmptyDict,
     labels |-> NoAnswer,
     sensors |-> async_get_available_sensors(
                     NoAnswer, NoAnswer, [raises |-> TRUE, data |-> EmptyDict]),
     interfaces |-> [labels |-> <<>>, raised |-> ""]]

NoConnect == [connect |-> "Exception", serial |-> ""]

\* The forms' fields, as the frontend submits them.
DiscoveryInputs == {[host |-> h] : h \in Hosts}

CredentialsInputs ==
    {[username |-> "admin", password |-> "pw", ssl |-> b] : b \in BOOLEAN}

DeviceInputs ==
    {[username |-> "admin", password |-> "pw", port |-> 8443, ssl |-> b,
      verify_ssl |-> FALSE, cert_path |-> ""] : b \in BOOLEAN}

OperationModeInputs == {[enable_control |-> b] : b \in BOOLEAN}

TimesInputs == {[cache_time |-> 5, scan_interval |-> 30, consider_home |-> 45]}

InterfacesInputs == {[interfaces |-> <<>>], [interfaces |-> <<"WAN">>]}

NameInputs == {[name |-> "Router"]}

Init ==
    /\ configs = [f \in Flows |-> EmptyDict]
    /\ options = [f \in Flows |-> EmptyDict]
    /\ unique_id = [f \in Flows |-> ""]
    /\ cur_step = [f \in Flows |-> ""]
    /\ device_errors = EmptyDict
    /\ entry = [f \in Flows |-> NoEntry]
    /\ checked = [f \in Flows |-> ""]
    /\ of_opened = 0
    /\ of_on = 0
    /\ of_selection = EmptyDict
    /\ of_configs = EmptyDict
    /\ of_options = EmptyDict
    /\ of_shared = FALSE
    /\ of_step = ""
    /\ discovered = NoDiscovery
    /\ last = [kind |-> "", op |-> "init", flow |-> 0, step |-> "",
               input |-> EmptyDict, result |-> Raised(""), checks |-> <<>>,
               queries |-> 0]

\* The fields of flow f as the handlers see them.
FlowState(f) ==
    [configs |-> configs[f], options |-> options[f], unique_id |-> unique_id[f],
     dflt |-> device_errors]

\* The serial of the last successful check among chks, or old if none.
LastSerial(old, chks) ==
    LET ok == {i \in 1..Len(chks) : "unique_id" \in DOMAIN chks[i].result}
    IN  IF ok = {} THEN old
        ELSE chks[CHOOSE i \in ok : \A j \in ok : j <= i].result["unique_id"]

\* The flow manager after a handler of flow f returned out: a form makes its
\* step the current one, a created entry ends the flow, an exception leaves
\* the flow at the step it was at.
Deliver(f, op, step, input, out) ==
    /\ configs' = [configs EXCEPT ![f] = out.st.configs]
    /\ options' = [options EXCEPT ![f] = out.st.options]
    /\ unique_id' = [unique_id EXCEPT ![f] = out.st.unique_id]
    /\ device_errors' = out.st.dflt
    /\ cur_step' = [cur_step EXCEPT ![f] =
                        IF out.result.type = "form" THEN out.result.step_id
                        ELSE IF out.result.type = "create_entry" THEN "done"
                        ELSE @]
    /\ entry' = [entry EXCEPT ![f] =
                     IF out.result.type = "create_entry"
                     THEN [created |-> TRUE, title |-> out.st.configs[CONF_HOST],
                           data |-> out.st.configs, options |-> out.st.options,
                           unique_id |-> out.st.unique_id]
                     ELSE @]
    /\ checked' = [checked EXCEPT ![f] =
                       LastSerial(IF op = "start" THEN "" ELSE @, out.checks)]
    /\ last' = [kind |-> "config", op |-> op, flow |-> f, step |-> step,
                input |-> input, result |-> out.result, checks |-> out.checks,
                queries |-> out.queries]
    /\ UNCHANGED <<of_vars, discovered>>

\* A new ASUSRouterFlowHandler is created and its user step is called
\* without input (an earlier flow in this slot is abandoned).
StartFlow(f) ==
    /\ entry[f] = NoEntry
    /\ Deliver(f, "start", "user", EmptyDict,
               async_step_user(NewFlowState(device_errors), EmptyDict,
                               [conn |-> NoConnect, net |-> NoAnswer]))

SubmitDiscovery(f) ==
    /\ cur_step[f] = "discovery"
    /\ \E input \in DiscoveryInputs :
           Deliver(f, "submit", "discovery", input,
                   async_step_discovery(FlowState(f), input,
                                        [conn |-> NoConnect, net |-> NoAnswer]))

SubmitCredentials(f) ==
    /\ cur_step[f] = "credentials"
    /\ \E input \in CredentialsInputs, c \in ConnectAnswers :
           Deliver(f, "submit", "credentials", input,
                   async_step_credentials(FlowState(f), input,
                                          [conn |-> c, net |-> NoAnswer]))

SubmitDevice(f) ==
    /\ cur_step[f] = "device"
    /\ \E input \in DeviceInputs, c \in ConnectAnswers :
           Deliver(f, "submit", "device", input,
                   async_step_device(FlowState(f), input, FALSE, EmptyDict,
                                     [conn |-> c, net |-> NoAnswer]))

SubmitOperationMode(f) ==
    /\ cur_step[f] = "operation_mode"
    /\ \E input \in OperationModeInputs :
           Deliver(f, "submit", "operation_mode", input,
                   async_step_operation_mode(FlowState(f), input,
                                             [conn |-> NoConnect, net |-> NoAnswer]))

SubmitTimes(f) ==
    /\ cur_step[f] = "times"
    /\ \E input \in TimesInputs, n \in LabelAnswers :
           Deliver(f, "submit", "times", input,
                   async_step_times(FlowState(f), input,
                                    [conn |-> NoConnect, net |-> n]))

SubmitInterfaces(f) ==
    /\ cur_step[f] = "interfaces"
    /\ \E input \in InterfacesInputs :
           Deliver(f, "submit", "interfaces", input,
                   async_step_interfaces(FlowState(f), input,
                                         [conn |-> NoConnect, net |-> NoAnswer]))

SubmitName(f) ==
    /\ cur_step[f] = "name"
    /\ \E input \in NameInputs :
           Deliver(f, "submit", "name", input,
                   async_step_name(FlowState(f), input,
                                   [conn |-> NoConnect, net |-> NoAnswer]))

\* ----------------------------------------------------- options flow steps

OptionsInputs ==
    {[device |-> d, operation_mode |-> o, times |-> t, interfaces |-> i] :
        d \in BOOLEAN, o \in BOOLEAN, t \in BOOLEAN, i \in BOOLEAN}

ConfirmationInputs == {[confirm |-> b] : b \in BOOLEAN}

\* The steps the selector passes between step and the interfaces step.
StepsBefore ==
    [options        |-> {"device", "operation_mode", "times"},
     device         |-> {"operation_mode", "times"},
     operation_mode |-> {"times"},
     times          |-> {}]

\* A call that leaves step under selection sel gets to the interfaces query:
\* interfaces is selected and no step before it is.
QueryAfter(sel, step) ==
    /\ ~NotSelected([selection |-> sel], "interfaces")
    /\ \A between \in StepsBefore[step] :
           NotSelected([selection |-> sel], between)

\* The fields of the options flow as the handlers see them.
OptionsState ==
    [selection |-> of_selection, configs |-> of_configs, options |-> of_options,
     stored |-> entry[of_on].options, shared |-> of_shared]

\* The flow manager after a handler of the options flow on entry f returned
\* out; a created entry stores the flow's options in the config entry.
DeliverOptions(f, op, step, input, out) ==
    /\ of_opened' = IF op = "start" THEN of_opened + 1 ELSE of_opened
    /\ of_on' = f
    /\ of_selection' = out.st.selection
    /\ of_configs' = out.st.configs
    /\ of_options' = out.st.options
    /\ of_shared' = out.st.shared
    /\ of_step' = IF out.result.type = "form" THEN out.result.step_id
                  ELSE IF out.result.type = "create_entry" THEN "done"
                  ELSE IF op = "start" THEN "" ELSE of_step
    /\ entry' = [entry EXCEPT ![f].options =
                     IF out.result.type = "create_entry" THEN out.st.options
                     ELSE out.st.stored]
    /\ last' = [kind |-> "options", op |-> op, flow |-> f, step |-> step,
                input |-> input, result |-> out.result, checks |-> out.checks,
                queries |-> out.queries]
    /\ UNCHANGED <<cf_vars, discovered>>

\* A new OptionsFlowHandler is created on the entry of flow f and its init
\* step is called without input (an earlier options flow is abandoned).
OpenOptions(f) ==
    /\ entry[f].created
    /\ of_opened < MaxOptionsFlows
    /\ DeliverOptions(f, "start", "init", EmptyDict,
                      Options_async_step_init(Options_init(entry[f]), EmptyDict,
                                              [conn |-> NoConnect, net |-> NoAnswer]))

SubmitOptions ==
    /\ of_step = "options"
    /\ \E input \in OptionsInputs :
       \E n \in LabelAnswersIf(QueryAfter(input, "options")) :
           DeliverOptions(of_on, "submit", "options", input,
                          Options_async_step_options(OptionsState, input,
                                                     [conn |-> NoConnect, net |-> n]))

SubmitOptionsDevice ==
    /\ of_step = "device"
    /\ \E input \in DeviceInputs, c \in ConnectAnswers,
       n \in LabelAnswersIf(QueryAfter(of_selection, "device")) :
           DeliverOptions(of_on, "submit", "device", input,
                          Options_async_step_device(OptionsState, input,
                                                    [conn |-> c, net |-> n]))

SubmitOptionsOperationMode ==
    /\ of_step = "operation_mode"
    /\ \E input \in OperationModeInputs,
       n \in LabelAnswersIf(QueryAfter(of_selection, "operation_mode")) :
           DeliverOptions(of_on, "submit", "operation_mode", input,
                          Options_async_step_operation_mode(OptionsState, input,
                                                            [conn |-> NoConnect, net |-> n]))

SubmitOptionsTimes ==
    /\ of_step = "times"
    /\ \E input \in TimesInputs,
       n \in LabelAnswersIf(QueryAfter(of_selection, "times")) :
           DeliverOptions(of_on, "submit", "times", input,
                          Options_async_step_times(OptionsState, input,
                                                   [conn |-> NoConnect, net |-> n]))

SubmitOptionsInterfaces ==
    /\ of_step = "interfaces"
    /\ \E input \in InterfacesInputs :
           DeliverOptions(of_on, "submit", "interfaces", input,
                          Options_async_step_interfaces(OptionsState, input,
                                                        [conn |-> NoConnect, net |-> NoAnswer]))

SubmitConfirmation ==
    /\ of_step = "confirmation"
    /\ \E input \in ConfirmationInputs :
           DeliverOptions(of_on, "submit", "confirmation", input,
                          Options_async_step_confirmation(OptionsState, input,
                                                          [conn |-> NoConnect, net |-> NoAnswer]))

\* One config flow at a time (a flow may be abandoned and a new one started)
\* and the options flow on the entry it created.
Next ==
    \/ StartFlow(1)
    \/ SubmitDiscovery(1)
    \/ SubmitCredentials(1)
    \/ SubmitDevice(1)
    \/ SubmitOperationMode(1)
    \/ SubmitTimes(1)
    \/ SubmitInterfaces(1)
    \/ SubmitName(1)
    \/ OpenOptions(1)
    \/ SubmitOptions
    \/ SubmitOptionsDevice
    \/ SubmitOptionsOperationMode
    \/ SubmitOptionsTimes
    \/ SubmitOptionsInterfaces
    \/ SubmitConfirmation

Spec == Init /\ [][Next]_vars

\* ------------------------------------------------------- sensor discovery

\* The configuration of an entry, and one without the port.
BridgeConfigs ==
    {[host |-> "router", username |-> "admin", password |-> "pw", port |-> 8443,
      ssl |-> TRUE, verify_ssl |-> FALSE],
     [host |-> "router", username |-> "admin", password |-> "pw",
      ssl |-> TRUE, verify_ssl |-> FALSE]}

\* The bridge discovers its sensors.
GetAvailableSensors ==
    /\ \E c \in CpuAnswers, n \in NetworkAnswers, p \in PortsAnswers :
           discovered' = [discovered EXCEPT
                              !.op = "sensors", !.cpu = c, !.net = n, !.ports = p,
                              !.sensors = async_get_available_sensors(c, n, p)]
    /\ UNCHANGED <<cf_vars, entry, of_vars, last>>

\* The interfaces of the device are requested.
GetNetworkInterfaces ==
    /\ \E cfg \in BridgeConfigs, n \in NetworkAnswers :
           discovered' = [discovered EXCEPT
                              !.op = "interfaces", !.labels = n, !.configs = cfg,
                              !.interfaces =
                                  _async_get_network_interfaces(cfg, EmptyDict, n)]
    /\ UNCHANGED <<cf_vars, entry, of_vars, last>>

NextBridge == GetAvailableSensors \/ GetNetworkInterfaces

SpecBridge == Init /\ [][NextBridge]_vars

\* Config flows running side by side.
NextFlows ==
    \E f \in Flows :
        \/ StartFlow(f)
        \/ SubmitDiscovery(f)
        \/ SubmitCredentials(f)
        \/ SubmitDevice(f)
        \/ SubmitOperationMode(f)
        \/ SubmitTimes(f)
        \/ SubmitInterfaces(f)
        \/ SubmitName(f)

SpecFlows == Init /\ [][NextFlows]_vars

\* ------------------------------------------------------- connection check

\* Configurations the check is called with: none, the host alone (the config
\* flow), and one that holds connection keys too.
CheckConfigs ==
    {EmptyDict,
     [host |-> "router"],
     [host |-> "router", username |-> "admin", port |-> 80, ssl |-> FALSE]}

\* Options the check is called with: none, the credentials fields, the
\* device fields, and device fields that carry a host of their own.
CheckOptions ==
    {EmptyDict}
    \cup CredentialsInputs
    \cup DeviceInputs
    \cup {[host |-> "other", username |-> "root", password |-> "pw",
            port |-> 8443, ssl |-> TRUE, verify_ssl |-> TRUE]}

\* _async_check_connection is called on its own.
CheckConnection ==
    /\ \E c \in CheckConfigs, o \in CheckOptions, simple \in BOOLEAN,
          a \in ConnectAnswers :
           last' = [kind |-> "check", op |-> "check", flow |-> 0, step |-> "",
                    input |-> [configs |-> c, options |-> o, simple |-> simple],
                    result |-> Raised(""),
                    checks |-> <<_async_check_connection(c, o, simple, a)>>,
                    queries |-> 0]
    /\ UNCHANGED <<cf_vars, entry, of_vars, discovered>>

SpecCheck == Init /\ [][CheckConnection]_vars

\* ---------------------------------------------- the monitoring option

\* Options of a config flow that got past its connection check, with the
\* monitoring option absent, on and off.  No form of the config flow has a
\* field for the option (the field of the operation_mode form is commented
\* out), so the handler is started from options that hold it.
MonitorOptions ==
    LET checked_options ==
            {[username |-> "admin", password |-> "pw", ssl |-> b, port |-> 8443,
              verify_ssl |-> FALSE, enable_control |-> c] :
                b \in BOOLEAN, c \in BOOLEAN}
    IN  checked_options
        \cup {Update(o, [enable_monitor |-> m]) :
                  o \in checked_options, m \in BOOLEAN}

\* A config flow at its times form.
InitMonitor ==
    /\ configs = [f \in Flows |-> IF f = 1 THEN [host |-> "router"] ELSE EmptyDict]
    /\ options \in {[f \in Flows |-> IF f = 1 THEN o ELSE EmptyDict] :
                        o \in MonitorOptions}
    /\ unique_id = [f \in Flows |-> IF f = 1 THEN "SN1" ELSE ""]
    /\ cur_step = [f \in Flows |-> IF f = 1 THEN "times" ELSE ""]
    /\ device_errors = EmptyDict
    /\ entry = [f \in Flows |-> NoEntry]
    /\ checked = [f \in Flows |-> IF f = 1 THEN "SN1" ELSE ""]
    /\ of_opened = 0
    /\ of_on = 0
    /\ of_selection = EmptyDict
    /\ of_configs = EmptyDict
    /\ of_options = EmptyDict
    /\ of_shared = FALSE
    /\ of_step = ""
    /\ discovered = NoDiscovery
    /\ last = [kind |-> "", op |-> "init", flow |-> 0, step |-> "",
               input |-> EmptyDict, result |-> Raised(""), checks |-> <<>>,
               queries |-> 0]

\* The flow goes on from there, or is abandoned and a new one is started.
NextMonitor ==
    \/ StartFlow(1)
    \/ SubmitDiscovery(1)
    \/ SubmitCredentials(1)
    \/ SubmitDevice(1)
    \/ SubmitOperationMode(1)
    \/ SubmitTimes(1)
    \/ SubmitInterfaces(1)
    \/ SubmitName(1)

SpecMonitor == InitMonitor /\ [][NextMonitor]_vars

\* ------------------------------------------ flows whose forms are submitted

\* One config flow that is started once and never abandoned.
NextLive ==
    \/ cur_step[1] = "" /\ StartFlow(1)
    \/ SubmitDiscovery(1)
    \/ SubmitCredentials(1)
    \/ SubmitDevice(1)
    \/ SubmitOperationMode(1)
    \/ SubmitTimes(1)
    \/ SubmitInterfaces(1)
    \/ SubmitName(1)

\* Every form that is shown is submitted: a flow that can take a step does
\* not stop.
SpecLive == Init /\ [][NextLive]_vars /\ WF_vars(NextLive)

\* ------------------------------------------------------------- properties

\* The last operation was a submission to step of the config flow.
ConfigSubmitted(step) ==
    /\ last.kind = "config"
    /\ last.op = "submit"
    /\ last.step = step

\* The last operation was a submission to step of the options flow.
OptionsSubmitted(step) ==
    /\ last.kind = "options"
    /\ last.op = "submit"
    /\ last.step = step

\* The last operation made a connection check whose connect was attempted.
LastChecked == Len(last.checks) = 1

\* The error code the last check returned, "" if it returned none.
LastCode ==
    IF LastChecked /\ "errors" \in DOMAIN last.checks[1].result
    THEN last.checks[1].result["errors"] ELSE ""

LastSucceeded ==
    /\ LastChecked
    /\ last.checks[1].raised = ""
    /\ "unique_id" \in DOMAIN last.checks[1].result

\* The error code each failure of connect is to give.
ExpectedCode ==
    [AsusRouterLoginError      |-> "wrong_credentials",
     AsusRouterLoginBlockError |-> "login_blocked",
     AsusRouterConnectionError |-> "connection_refused",
     AsusRouterError           |-> "unknown",
     ConfigEntryNotReady       |-> "unknown"]

\* C1: every failure of the bridge's connect gives exactly its error code,
\* in simple and in complete mode; the result then has the "errors" key only
\* and no exception leaves the check.
C1_ConnectFailureMapped ==
    \A i \in 1..Len(last.checks) :
        LET chk == last.checks[i]
        IN  chk.exc # "" =>
                /\ chk.exc \in DOMAIN ExpectedCode
                /\ chk.raised = ""
                /\ DOMAIN chk.result = {"errors"}
                /\ chk.result["errors"] = ExpectedCode[chk.exc]

\* A login block met in complete mode.
C1_Witness ==
    /\ ConfigSubmitted("device")
    /\ LastChecked
    /\ ~last.checks[1].simple
    /\ last.checks[1].exc = "AsusRouterLoginBlockError"
    /\ last.checks[1].result = [errors |-> "login_blocked"]

\* C2: a credentials submission whose check gives wrong credentials or login
\* blocked shows the credentials form again with that code as base error;
\* the flow stays at credentials.
C2_CredentialsErrorStays ==
    (ConfigSubmitted("credentials")
        /\ LastCode \in {"wrong_credentials", "login_blocked"})
    => /\ last.result.type = "form"
       /\ last.result.step_id = "credentials"
       /\ last.result.errors = [base |-> LastCode]
       /\ cur_step[last.flow] = "credentials"

C2_Witness ==
    /\ ConfigSubmitted("credentials")
    /\ LastCode = "login_blocked"
    /\ last.result.step_id = "credentials"

\* C3: the sensor and interface discovery never lets an exception of the SDK
\* out: a raising request gives ["total"] for the CPU sensors, the empty
\* list for the network and ports sensors, and the default interfaces.
C3_DiscoveryDefaults ==
    /\ discovered.op = "sensors" =>
        /\ discovered.sensors.raised = ""
        /\ discovered.cpu.raises => discovered.sensors.cpu = <<"total">>
        /\ discovered.net.raises => discovered.sensors.network_stat = <<>>
        /\ discovered.ports.raises => discovered.sensors.ports = <<>>
    /\ (discovered.op = "interfaces" /\ discovered.labels.raises
            /\ BridgeRequiredKeys \subseteq DOMAIN discovered.configs)
        => /\ discovered.interfaces.raised = ""
           /\ discovered.interfaces.labels = <<"WAN">>

C3_Witness ==
    /\ discovered.op = "sensors"
    /\ discovered.cpu.raises
    /\ discovered.net.raises
    /\ ~discovered.ports.raises
    /\ discovered.sensors.ports # <<>>

\* The fixed order of the steps of the config flow.
StepOrder ==
    <<"discovery", "credentials", "device", "operation_mode", "times",
      "interfaces", "name">>

Position(step) == CHOOSE i \in 1..Len(StepOrder) : StepOrder[i] = step

\* C4: the form a submission of the config flow shows belongs to the step
\* submitted to, or to a later step of the fixed order.
C4_Linear ==
    [][(last'.kind = "config" /\ last'.op = "submit"
            /\ last'.result.type = "form")
       => /\ last'.result.step_id \in {StepOrder[i] : i \in 1..Len(StepOrder)}
          /\ last'.step = cur_step[last'.flow]
          /\ Position(last'.result.step_id) >= Position(cur_step[last'.flow])]_vars

C4_Witness ==
    /\ ConfigSubmitted("times")
    /\ last.result.type = "form"
    /\ last.result.step_id = "interfaces"

\* C5: an entry exists only if a connection check of its flow succeeded, and
\* its unique id is the serial of the last successful check.
C5_EntryAfterCheck ==
    \A f \in Flows :
        entry[f].created =>
            /\ checked[f] \in Serials
            /\ entry[f].unique_id = checked[f]
            /\ unique_id[f] = checked[f]

C5_Witness ==
    /\ last.kind = "config"
    /\ last.result.type = "create_entry"
    /\ entry[1].created
    /\ entry[1].unique_id = "SN2"

\* The number of times call occurs in calls.
Count(calls, call) == Cardinality({i \in 1..Len(calls) : calls[i] = call})

\* C6: a check that attempts a connect calls connect, then cleanup, then,
\* only after a successful connect, get_serial and disconnect; cleanup is
\* called exactly once.
C6_CallOrder ==
    \A i \in 1..Len(last.checks) :
        LET chk == last.checks[i]
        IN  Count(chk.calls, "async_connect") > 0 =>
                /\ Count(chk.calls, "async_clean") = 1
                /\ chk.calls[1] = "async_connect"
                /\ chk.calls[2] = "async_clean"
                /\ IF "unique_id" \in DOMAIN chk.result
                   THEN chk.calls = <<"async_connect", "async_clean",
                                      "get_serial", "async_disconnect">>
                   ELSE chk.calls = <<"async_connect", "async_clean">>

C6_Witness ==
    /\ LastChecked
    /\ LastCode = "connection_refused"
    /\ last.checks[1].calls = <<"async_connect", "async_clean">>

\* The inputs a form of the config flow can submit.
InputsOf(step) ==
    IF step = "discovery" THEN DiscoveryInputs
    ELSE IF step = "credentials" THEN CredentialsInputs
    ELSE IF step = "device" THEN DeviceInputs
    ELSE IF step = "operation_mode" THEN OperationModeInputs
    ELSE IF step = "times" THEN TimesInputs
    ELSE IF step = "interfaces" THEN InterfacesInputs
    ELSE IF step = "name" THEN NameInputs
    ELSE {}

\* The answers of the device a submission to step can consume: a connect in
\* credentials and device, the interfaces request after times.
AnswersOf(step) ==
    IF step \in {"credentials", "device"}
    THEN {[conn |-> c, net |-> NoAnswer] : c \in ConnectAnswers}
    ELSE IF step = "times"
    THEN {[conn |-> NoConnect, net |-> n] : n \in LabelAnswers}
    ELSE {[conn |-> NoConnect, net |-> NoAnswer]}

\* What flow f returns when input is submitted to the step it is at and the
\* device answers with answers.
ResultOf(f, input, answers) ==
    LET step == cur_step[f]
        out == IF step = "discovery"
               THEN async_step_discovery(FlowState(f), input, answers)
               ELSE IF step = "credentials"
               THEN async_step_credentials(FlowState(f), input, answers)
               ELSE IF step = "device"
               THEN async_step_device(FlowState(f), input, FALSE, EmptyDict, answers)
               ELSE IF step = "operation_mode"
               THEN async_step_operation_mode(FlowState(f), input, answers)
               ELSE IF step = "times"
               THEN async_step_times(FlowState(f), input, answers)
               ELSE IF step = "interfaces"
               THEN async_step_interfaces(FlowState(f), input, answers)
               ELSE async_step_name(FlowState(f), input, answers)
    IN  out.result

\* C7: what a submission to a flow returns does not depend on the other
\* flows: an operation of one flow leaves the result of every possible
\* submission to every other flow as it was.
C7_FlowsIndependent ==
    [][\A f \in Flows \ {last'.flow} :
           \A input \in InputsOf(cur_step[f]), answers \in AnswersOf(cur_step[f]) :
               ResultOf(f, input, answers) = ResultOf(f, input, answers)']_vars

\* C8: a device submission of the config flow whose check succeeds shows
\* the operation_mode form.
C8_DeviceSuccessAdvances ==
    (ConfigSubmitted("device") /\ LastSucceeded)
    => /\ last.result.type = "form"
       /\ last.result.step_id = "operation_mode"
       /\ cur_step[last.flow] = "operation_mode"

\* C9: a credentials submission whose simplified check fails with a code
\* other than wrong credentials and login blocked shows the device form with
\* that code as base error; one whose check succeeds shows the
\* operation_mode form, and the device form is only ever shown after a
\* failed check.
C9_CredentialsBranch ==
    /\ [](ConfigSubmitted("credentials") /\ LastChecked
            => /\ last.checks[1].simple
               /\ LastCode \in {"connection_refused", "unknown", "error"}
                    => /\ last.result.type = "form"
                       /\ last.result.step_id = "device"
                       /\ last.result.errors = [base |-> LastCode]
                       /\ cur_step[last.flow] = "device"
               /\ LastSucceeded
                    => /\ last.result.type = "form"
                       /\ last.result.step_id = "operation_mode"
                       /\ cur_step[last.flow] = "operation_mode")
    /\ [][\A f \in Flows :
              (cur_step'[f] = "device" /\ cur_step[f] # "device")
              => /\ cur_step[f] = "credentials"
                 /\ last'.step = "credentials"
                 /\ ~("unique_id" \in DOMAIN last'.checks[1].result)]_vars

C9_Witness ==
    /\ ConfigSubmitted("credentials")
    /\ LastCode = "unknown"
    /\ last.result.step_id = "device"
    /\ last.result.errors = [base |-> "unknown"]

\* C10: a device submission whose check fails shows the device form again
\* with the code of that check as base error and the flow stays at the
\* device step, in the config flow and in the options flow.
C10_DeviceErrorStays ==
    /\ (ConfigSubmitted("device") /\ LastCode # "")
        => /\ last.result.type = "form"
           /\ last.result.step_id = "device"
           /\ last.result.errors = [base |-> LastCode]
           /\ cur_step[last.flow] = "device"
    /\ (OptionsSubmitted("device") /\ LastCode # "")
        => /\ last.result.type = "form"
           /\ last.result.step_id = "device"
           /\ last.result.errors = [base |-> LastCode]
           /\ of_step = "device"

C10_Witness ==
    /\ OptionsSubmitted("device")
    /\ LastCode = "wrong_credentials"
    /\ of_step = "device"

\* C11: a discovery submission whose host cannot be resolved shows the
\* discovery form again with the base error "cannot_resolve_host" and leaves
\* the flow's configuration and options as they were; one whose host
\* resolves stores the host in the configuration and shows the credentials
\* form.
C11_DiscoveryFrame ==
    [][(last'.kind = "config" /\ last'.op = "submit" /\ last'.step = "discovery")
       => LET f == last'.flow
              host == last'.input[CONF_HOST]
          IN  IF host \in Resolvable
              THEN /\ CONF_HOST \in DOMAIN configs'[f]
                   /\ configs'[f][CONF_HOST] = host
                   /\ last'.result.type = "form"
                   /\ last'.result.step_id = "credentials"
              ELSE /\ last'.result.type = "form"
                   /\ last'.result.step_id = "discovery"
                   /\ last'.result.errors = [base |-> "cannot_resolve_host"]
                   /\ configs'[f] = configs[f]
                   /\ options'[f] = options[f]]_vars

\* The dictionary the check is to return under "configs": configs, then
\* options, then in simple mode the simplified-setup parameters of the SSL
\* flag, laid over each other.
MergedFor(input) ==
    LET merged == Update(input.configs, input.options)
    IN  IF input.simple
        THEN Update(merged, SIMPLE_SETUP_PARAMETERS[
                                IF merged[CONF_SSL] THEN "ssl" ELSE "no_ssl"])
        ELSE merged

\* C12: a successful check returns under "configs" the merge of configs,
\* options and (simple mode) the simplified-setup parameters without the keys
\* of configs: no key of configs is in it, every other merged key is in it
\* with its merged value, and the configs and options passed in are as they
\* were.
C12_ReturnedConfigs ==
    (last.kind = "check" /\ "unique_id" \in DOMAIN last.checks[1].result)
    => LET chk == last.checks[1]
           out == chk.result["configs"]
           merged == MergedFor(last.input)
       IN  /\ DOMAIN out = (DOMAIN merged) \ (DOMAIN last.input.configs)
           /\ \A k \in DOMAIN out : out[k] = merged[k]
           /\ chk.args.configs = last.input.configs
           /\ chk.args.options = last.input.options

\* A successful simple check whose configs and options share keys.
C12_Witness ==
    /\ last.kind = "check"
    /\ last.input.simple
    /\ "unique_id" \in DOMAIN last.checks[1].result
    /\ (DOMAIN last.input.configs) \cap (DOMAIN last.input.options) # {}
    /\ last.checks[1].result["configs"] =
           [password |-> "pw", verify_ssl |-> FALSE]

\* The keys of the simplified-setup parameters.
SimpleKeys == DOMAIN SIMPLE_SETUP_PARAMETERS["ssl"]

\* C13: a credentials submission whose check fails leaves the options as
\* they were plus the submitted fields, so without the simplified-setup
\* parameters, and the device form it may show carries none of them; a
\* submission whose check succeeds writes the parameters of the submitted
\* SSL flag to the options.
C13_FailedCheckFrame ==
    [][(last'.kind = "config" /\ last'.op = "submit"
            /\ last'.step = "credentials" /\ Len(last'.checks) = 1)
       => LET f == last'.flow
              chk == last'.checks[1]
          IN  /\ "errors" \in DOMAIN chk.result
                    => /\ options'[f] = Update(options[f], last'.input)
                       /\ SimpleKeys \cap DOMAIN options'[f] = {}
                       /\ last'.result.type = "form"
                       /\ last'.result.step_id = "device"
                            => /\ last'.result.data = options'[f]
                               /\ SimpleKeys \cap DOMAIN last'.result.data = {}
              /\ "unique_id" \in DOMAIN chk.result
                    => \A k \in SimpleKeys :
                           /\ k \in DOMAIN options'[f]
                           /\ options'[f][k] =
                                  SIMPLE_SETUP_PARAMETERS[
                                      IF last'.input[CONF_SSL]
                                      THEN "ssl" ELSE "no_ssl"][k]]_vars

\* The device form shown after a failed simplified check.
C13_Witness ==
    /\ ConfigSubmitted("credentials")
    /\ LastCode = "connection_refused"
    /\ last.result.type = "form"
    /\ last.result.step_id = "device"
    /\ last.result.data = [username |-> "admin", password |-> "pw", ssl |-> TRUE]
    /\ options[1] = last.result.data

\* Monitoring is on in the options of flow f, or absent and on by default.
Monitoring(f) == Get(options[f], CONF_ENABLE_MONITOR, TRUE) = TRUE

\* C14: the interfaces step, called after the times submission: with
\* monitoring on (or absent) it queries the device once and shows the
\* interfaces form, and the name form is shown only after that form was
\* submitted; with monitoring off it shows the name form at once, without a
\* query and without an interfaces selection written to the options.
C14_MonitorBranch ==
    [][/\ (last'.kind = "config" /\ last'.op = "submit" /\ last'.step = "times")
          => IF Monitoring(1)
             THEN /\ last'.queries = 1
                  /\ last'.result.type = "form"
                  /\ last'.result.step_id = "interfaces"
                  /\ cur_step'[1] = "interfaces"
             ELSE /\ last'.queries = 0
                  /\ last'.result.type = "form"
                  /\ last'.result.step_id = "name"
                  /\ cur_step'[1] = "name"
                  /\ options'[1] = Update(options[1], last'.input)
                  /\ CONF_INTERFACES \notin DOMAIN options'[1]
       /\ (cur_step'[1] = "name" /\ cur_step[1] # "name")
          => IF Monitoring(1)
             THEN /\ cur_step[1] = "interfaces"
                  /\ last'.step = "interfaces"
                  /\ CONF_INTERFACES \in DOMAIN options'[1]
             ELSE cur_step[1] = "times"]_vars

\* With monitoring off the times submission showed the name form.
C14_Witness ==
    /\ ConfigSubmitted("times")
    /\ ~Monitoring(1)
    /\ last.queries = 0
    /\ last.result.step_id = "name"
    /\ cur_step[1] = "name"

\* The steps of the options flow that can be selected, in their order.
OptionsOrder == <<"device", "operation_mode", "times", "interfaces">>

OptionsPosition(step) ==
    IF step = "options" THEN 0
    ELSE CHOOSE i \in 1..Len(OptionsOrder) : OptionsOrder[i] = step

\* The form due after step under selection sel: the first later step that is
\* selected as true (interfaces only with monitoring on), else confirmation.
NextShown(sel, opts, step) ==
    LET later == {i \in (OptionsPosition(step) + 1)..Len(OptionsOrder) :
                     /\ OptionsOrder[i] \in DOMAIN sel
                     /\ sel[OptionsOrder[i]] = TRUE
                     /\ OptionsOrder[i] = "interfaces"
                            => Get(opts, CONF_ENABLE_MONITOR, TRUE) = TRUE}
    IN  IF later = {} THEN "confirmation"
        ELSE OptionsOrder[CHOOSE i \in later : \A j \in later : i <= j]

\* C15: a submission to the options step or to one of the selectable steps
\* of the options flow shows the form of the first later step selected as
\* true, or the confirmation form when there is none (a failed device check
\* shows the device form again); a form of a selectable step is shown only
\* for a step selected as true; a connection check is run only by a
\* submission to the selected device step and the device is queried only to
\* show the form of the selected interfaces step; the options change only
\* by the fields submitted to the step (every other key keeps its value)
\* and, when the interfaces form is shown, in the interfaces list.
C15_SelectedStepsInOrder ==
    [][(last'.kind = "options" /\ last'.op = "submit"
            /\ last'.step \in {"options", "device", "operation_mode", "times",
                                "interfaces"})
       => LET step == last'.step
              shown == last'.result.step_id
              failed == /\ step = "device"
                        /\ Len(last'.checks) = 1
                        /\ "errors" \in DOMAIN last'.checks[1].result
              fields == IF step = "options" THEN EmptyDict ELSE last'.input
          IN  /\ last'.result.type = "form"
              /\ of_step' = shown
              /\ IF failed THEN shown = "device"
                 ELSE shown = NextShown(of_selection', of_options', step)
              /\ shown # "confirmation"
                    => /\ shown \in DOMAIN of_selection'
                       /\ of_selection'[shown] = TRUE
              /\ step # "options" => of_selection' = of_selection
              /\ last'.checks # <<>>
                    => /\ step = "device"
                       /\ of_selection["device"] = TRUE
                       /\ Len(last'.checks) = 1
              /\ last'.queries \in {0, 1}
              /\ last'.queries = 1
                    <=> (~failed /\ shown = "interfaces")
              /\ DOMAIN of_options' = (DOMAIN of_options) \cup (DOMAIN fields)
              /\ \A k \in DOMAIN of_options' :
                     \/ k = CONF_INTERFACES /\ shown = "interfaces"
                     \/ of_options'[k] = IF k \in DOMAIN fields THEN fields[k]
                                         ELSE of_options[k]]_vars

\* Device and times were left out and the form of times never appeared: the
\* operation_mode submission showed the interfaces form.
C15_Witness ==
    /\ OptionsSubmitted("operation_mode")
    /\ of_selection = [device |-> FALSE, operation_mode |-> TRUE,
                       times |-> FALSE, interfaces |-> TRUE]
    /\ last.result.step_id = "interfaces"
    /\ last.queries = 1
    /\ last.checks = <<>>

\* C16: the options flow creates its entry only by a confirmation submission
\* whose confirm field is true; a confirmation submission without it shows
\* the confirmation form again with the base error "not_confirmed" and
\* leaves the flow's options and the entry as they were.
C16_EntryOnlyConfirmed ==
    [][last'.kind = "options"
       => /\ last'.result.type = "create_entry"
                => /\ last'.op = "submit"
                   /\ last'.step = "confirmation"
                   /\ of_step = "confirmation"
                   /\ CONF_CONFIRM \in DOMAIN last'.input
                   /\ last'.input[CONF_CONFIRM] = TRUE
                   /\ entry'[last'.flow].options = of_options
          /\ (last'.op = "submit" /\ last'.step = "confirmation"
                  /\ ~(CONF_CONFIRM \in DOMAIN last'.input
                          /\ last'.input[CONF_CONFIRM] = TRUE))
                => /\ last'.result.type = "form"
                   /\ last'.result.step_id = "confirmation"
                   /\ last'.result.errors = [base |-> "not_confirmed"]
                   /\ of_step' = "confirmation"
                   /\ of_options' = of_options
                   /\ entry' = entry]_vars

\* Confirmation was submitted without the confirm field set.
C16_Witness ==
    /\ OptionsSubmitted("confirmation")
    /\ last.input = [confirm |-> FALSE]
    /\ last.result.errors = [base |-> "not_confirmed"]
    /\ of_step = "confirmation"
    /\ of_options # entry[1].options

\* C17: with the device step selected the options step shows the device
\* form, and a submission takes the options flow from the device form to
\* another form only if it is a device submission whose connection check
\* succeeded; a device submission whose check failed leaves the flow at the
\* device form, and no entry is created from there.
C17_DevicePassedByCheck ==
    [][(last'.kind = "options" /\ last'.op = "submit")
       => /\ (last'.step = "options" /\ last'.input["device"] = TRUE)
                => of_step' = "device"
          /\ (of_step = "device" /\ of_step' # "device")
                => /\ last'.step = "device"
                   /\ Len(last'.checks) = 1
                   /\ last'.checks[1].raised = ""
                   /\ "unique_id" \in DOMAIN last'.checks[1].result
                   /\ last'.checks[1].exc = ""
          /\ (last'.step = "device" /\ Len(last'.checks) = 1
                  /\ "unique_id" \notin DOMAIN last'.checks[1].result)
                => /\ of_step' = "device"
                   /\ last'.result.type = "form"
                   /\ entry' = entry]_vars

\* A failed device submission of the options flow, the flow still at device.
C17_Witness ==
    /\ OptionsSubmitted("device")
    /\ LastCode = "connection_refused"
    /\ last.result.step_id = "device"
    /\ of_step = "device"
    /\ of_selection["device"] = TRUE

\* C18: every operation of the options flow that does not create the entry
\* (opening the flow, showing a form, the interfaces form included) leaves
\* the options stored in the config entry, its list of tracked interfaces
\* included, exactly as they were.
C18_StoredOptionsUntouched ==
    [][(last'.kind = "options" /\ last'.result.type # "create_entry")
       => entry'[last'.flow].options = entry[last'.flow].options]_vars

\* Every submission ends in a form or in a created entry.
C19_OneOutcome ==
    [](last.op = "submit" => last.result.type \in {"form", "create_entry"})

\* The last submission was turned down: a host that did not resolve or a
\* connection check that failed.
Rejected ==
    /\ last.kind = "config"
    /\ last.op = "submit"
    /\ \/ last.step = "discovery" /\ last.input[CONF_HOST] \notin Resolvable
       \/ LastCode # ""

\* From the discovery form, a run whose forms are all submitted creates the
\* entry unless a submission is turned down.
C19_RunCreatesEntry ==
    (cur_step[1] = "discovery") ~> (entry[1].created \/ Rejected)

\* C19: every step submission of either flow ends in exactly one outcome, a
\* form shown or an entry created, and from the discovery form a run in which
\* the host resolves, the device accepts the credentials and each shown form
\* is submitted eventually creates the entry.
C19_SubmissionsEnd == C19_OneOutcome /\ C19_RunCreatesEntry

====
